---- MODULE Spec2Model ----
(***************************************************************************)
(* Speech-Emotion-Recognition, Week-5: the file predictor                  *)
(* (emotion_predictor.py: EmotionPredictor) and the live detector          *)
(* (live_emotion_detector.py: LiveEmotionDetector).                        *)
(*                                                                         *)
(* Spec      the file predictor: one predict call or one predict_batch     *)
(*           call on a loaded predictor.                                   *)
(* SpecLive  the live detector: run_single or run_continuous on a loaded   *)
(*           detector, with the user's Ctrl+C as an environment action.    *)
(*                                                                         *)
(* Floating-point amplitudes are in thousandths (0.01 is 10); the          *)
(* probabilities of a classifier are in units of 1/ProbUnit.  Python's     *)
(* None is the empty set and a value x that may be None is {x}.  A call    *)
(* that may raise returns [ok |-> TRUE, value |-> v] or                    *)
(* [ok |-> FALSE, exc |-> e].                                              *)
(***************************************************************************)
EXTENDS Integers, Sequences, FiniteSets, TLC

VARIABLES
    expected_features,  \* self.expected_features = scaler.n_features_in_
    model,              \* self.model: the loaded classifier
    model_path_exists,  \* os.path.exists(model_path)
    scaler_path_exists, \* os.path.exists(scaler_path)
    scaler,             \* self.scaler: the loaded scaler, or None
    loaded,             \* the paths joblib.load was called with, in order
    ctor_exc,           \* the exception EmotionPredictor.__init__ raised, or None
    ppc,                \* file predictor: its position in __init__, then
                        \* "idle", "batch" or "done"
    audio_paths,        \* predict_batch: its argument
    bidx,               \* predict_batch: position of the for loop (1-based)
    results,            \* predict_batch: the local list results
    call_path,          \* the path of the single predict call
    outcome,            \* what the finished call returned or raised
    mode,               \* live detector: "menu", "single", "continuous", "exit"
    lpc,                \* live detector: position in run_single / run_continuous
    iteration,          \* run_continuous: the local counter iteration
    audio,              \* the local buffer audio of the running mode
    prediction,         \* the local (emotion, confidence, probabilities)
    history,            \* self.history
    displayed,          \* the calls of display_result so far, in order
    transform_arg,      \* the row last handed to scaler.transform, or None
    live_exc,           \* the exception that ended the running mode, or None
    slept,              \* the seconds of the latest time.sleep call, or None
    feature_audio       \* the buffer librosa.feature.mfcc was last called
                        \* on and the path that called it, or None

pvars == <<ppc, audio_paths, bidx, results, call_path, outcome>>
lvars == <<mode, lpc, iteration, audio, prediction, history, displayed, live_exc, slept>>
cvars == <<model_path_exists, scaler_path_exists, scaler, loaded, ctor_exc>>
vars == <<cvars, expected_features, model, pvars, lvars, transform_arg,
          feature_audio>>

----------------------------------------------------------------------------
(* Bounds of the model *)

\* longest list handed to predict_batch
MaxBatch == 3
\* probabilities are multiples of 1/ProbUnit
ProbUnit == 2
\* iterations of run_continuous that are explored
MaxIterations == 4

----------------------------------------------------------------------------
(* Python values *)

None == {}
Some(x) == {x}
TheValue(opt) == CHOOSE x \in opt : TRUE

Ok(v) == [ok |-> TRUE, value |-> v]
Raise(e) == [ok |-> FALSE, exc |-> e]

EmptyDict == [k \in {} |-> 0]
\* d[k] = v of a Python dict
DictSet(d, k, v) == [x \in (DOMAIN d) \cup {k} |-> IF x = k THEN v ELSE d[x]]

----------------------------------------------------------------------------
(* The loaded artifacts *)

\* RAVDESS emotion mapping
emotion_map ==
    (1 :> "Neutral") @@ (2 :> "Calm") @@ (3 :> "Happy") @@ (4 :> "Sad") @@
    (5 :> "Angry") @@ (6 :> "Fearful") @@ (7 :> "Disgust") @@ (8 :> "Surprised")

\* the class identifiers a label exists for
KnownIds == DOMAIN emotion_map

\* What a decoded recording is, as far as the classifier can tell: the two
\* decodable sources differ in it.
Contents == {1, 2}

Reverse(s) == [i \in 1..Len(s) |-> s[Len(s) + 1 - i]]

RECURSIVE SumSeq(_)
SumSeq(s) == IF s = <<>> THEN 0 ELSE s[1] + SumSeq(Tail(s))

\* the rows predict_proba can return for n classes: they sum to one
ProbRows(n) == {r \in [1..n -> 0..ProbUnit] : SumSeq(r) = ProbUnit}

\* the orders of classes_ explored: sorted, unsorted, and one holding an
\* identifier the emotion map has no label for
ClassOrders == {<<1, 2>>, <<2, 1>>, <<3, 9>>}

\* A loaded classifier: its classes_, whether it has predict_proba, and what
\* predict and predict_proba answer for each content.  Content 2 is answered
\* with the mirror image of content 1.  predict and predict_proba are
\* separate operations of the object and need not agree.
MakeClassifier(cs, hp, pos, row) ==
    [classes_ |-> cs,
     has_proba |-> hp,
     predict |-> [c \in Contents |->
                    IF c = 1 THEN cs[pos] ELSE cs[Len(cs) + 1 - pos]],
     predict_proba |-> [c \in Contents |->
                    IF c = 1 THEN row ELSE Reverse(row)]]

Classifiers ==
    {MakeClassifier(cs, TRUE, pos, row) :
        cs \in ClassOrders, pos \in 1..2, row \in ProbRows(2)}
    \cup
    {MakeClassifier(cs, FALSE, pos, [i \in 1..2 |-> IF i = 1 THEN ProbUnit ELSE 0]) :
        cs \in ClassOrders, pos \in 1..2}

\* n_mfcc=13
N_MFCC == 13

\* the values scaler.n_features_in_ is explored with
ExpectedCounts == 80..84

----------------------------------------------------------------------------
(* The file system and the decoder *)

Paths == {"missing.wav", "corrupt.wav", "a.wav", "b.wav"}

\* os.path.exists(audio_path)
path_exists(audio_path) == audio_path # "missing.wav"

\* librosa.load(audio_path, sr=sr, mono=True, duration=duration): the content
\* of the decoded buffer, or the decoder's error
librosa_load(audio_path) ==
    CASE audio_path = "a.wav" -> Ok(1)
      [] audio_path = "b.wav" -> Ok(2)
      [] OTHER -> Raise([type |-> "DecodeError", path |-> audio_path])

----------------------------------------------------------------------------
(* Feature extraction *)

\* The k-th scalar of block b computed from content c.  The numeric value
\* is librosa's; here it is a nonzero code that tells the scalars apart
\* from each other and from a padding zero.
Scalar(b, k, c) == c * 1000 + b * 20 + k

\* one of mfcc_mean, mfcc_std, delta_mean, delta_std, delta2_mean, delta2_std
Block(b, c) == [k \in 1..N_MFCC |-> Scalar(b, k, c)]

\* np.hstack([mfcc_mean, mfcc_std, delta_mean, delta_std, delta2_mean,
\*            delta2_std, spectral_centroid, spectral_rolloff,
\*            zero_crossing_rate])
hstack_features(c) ==
    Block(1, c) \o Block(2, c) \o Block(3, c) \o Block(4, c) \o
    Block(5, c) \o Block(6, c) \o
    <<Scalar(7, 1, c)>> \o <<Scalar(7, 2, c)>> \o <<Scalar(7, 3, c)>>

\* the content a feature row was computed from
ContentOf(row) == row[1] \div 1000

\* np.zeros(n)
zeros(n) == [i \in 1..n |-> 0]

DimensionMismatch(expected, got) ==
    [type |-> "ValueError", msg |-> "Feature dimension mismatch",
     expected |-> expected, got |-> got]

\* the except clause of extract_features: raise Exception("Feature
\* extraction failed: " + str(e))
ExtractionFailed(e) ==
    [type |-> "Exception", msg |-> "Feature extraction failed", cause |-> e]

\* ReconcileDimensions with the second rule padding like the first: one zero
\* for 82 and for 83
ReconcileDimensions_PadOne(features, expected) ==
    IF Len(features) # expected
    THEN IF Len(features) = 81 /\ expected \in {82, 83}
         THEN Ok(features \o <<0>>)
         ELSE Raise(DimensionMismatch(expected, Len(features)))
    ELSE Ok(features)

\* "Debug: Check feature count and fix if needed"
ReconcileDimensions(features, expected) ==
    IF Len(features) # expected
    THEN IF Len(features) = 81 /\ expected = 82
         THEN Ok(features \o <<0>>)
         ELSE IF Len(features) = 81 /\ expected = 83
              THEN Ok(features \o zeros(2))
              ELSE Raise(DimensionMismatch(expected, Len(features)))
    ELSE Ok(features)

\* EmotionPredictor.extract_features(audio_path)
extract_features(audio_path) ==
    IF ~path_exists(audio_path)
    THEN Raise([type |-> "FileNotFoundError", path |-> audio_path])
    ELSE LET y == librosa_load(audio_path) IN
         IF ~y.ok
         THEN Raise(ExtractionFailed(y.exc))
         ELSE LET r == ReconcileDimensions(hstack_features(y.value),
                                           expected_features) IN
              IF r.ok THEN r ELSE Raise(ExtractionFailed(r.exc))

----------------------------------------------------------------------------
(* Prediction *)

\* scaler.transform(features.reshape(1, -1)): the fitted scaler accepts only
\* rows of n_features_in_ columns.  The scaling itself leaves the content
\* of the row recognisable and is not modelled further.
scaler_transform(features) ==
    IF Len(features) # expected_features
    THEN Raise([type |-> "ValueError", msg |-> "X has a wrong number of features",
                expected |-> expected_features, got |-> Len(features)])
    ELSE Ok(features)

\* self.model.predict(features_scaled)[0]
model_predict(features_scaled) == model.predict[ContentOf(features_scaled)]

\* self.model.predict_proba(features_scaled)[0]
model_predict_proba(features_scaled) ==
    model.predict_proba[ContentOf(features_scaled)]

KeyError(k) == [type |-> "KeyError", key |-> k]

\* MapProbabilities with the classes taken to be 1, 2, ... in order instead
\* of read from classes_
RECURSIVE MapProbabilities_ByPosition(_, _, _)
MapProbabilities_ByPosition(probs, idx, probabilities) ==
    IF idx > Len(probs)
    THEN Ok(probabilities)
    ELSE IF idx \notin KnownIds
         THEN Raise(KeyError(idx))
         ELSE MapProbabilities_ByPosition(probs, idx + 1,
                  DictSet(probabilities, emotion_map[idx], probs[idx]))

\* for idx, prob in enumerate(probs):
\*     probabilities[self.emotion_map[self.model.classes_[idx]]] = prob
\* from position idx on, with the dict built so far
RECURSIVE MapProbabilities(_, _, _)
MapProbabilities(probs, idx, probabilities) ==
    IF idx > Len(probs)
    THEN Ok(probabilities)
    ELSE LET emotion_id_mapped == model.classes_[idx] IN
         IF emotion_id_mapped \notin KnownIds
         THEN Raise(KeyError(emotion_id_mapped))
         ELSE MapProbabilities(probs, idx + 1,
                  DictSet(probabilities, emotion_map[emotion_id_mapped], probs[idx]))

\* Classify with the label taken from the most probable class instead of
\* from the predict call
Classify_LabelFromProba(features_scaled) ==
    LET probs == model_predict_proba(features_scaled) IN
    LET best == CHOOSE i \in 1..Len(probs) : \A j \in 1..Len(probs) : probs[i] >= probs[j] IN
    LET emotion_id == IF model.has_proba THEN model.classes_[best]
                      ELSE model_predict(features_scaled) IN
    IF emotion_id \notin KnownIds
    THEN Raise(KeyError(emotion_id))
    ELSE LET emotion_label == emotion_map[emotion_id] IN
         IF ~model.has_proba
         THEN Ok(<<Some(emotion_label), None, EmptyDict>>)
         ELSE LET m == MapProbabilities(probs, 1, EmptyDict) IN
              IF ~m.ok
              THEN m
              ELSE Ok(<<Some(emotion_label), Some(m.value[emotion_label]), m.value>>)

\* The part of predict after the scaler: "Predict" and "Get probabilities if
\* available".  The value is the tuple (emotion_label, confidence,
\* probabilities); its first two entries are values that may be None.
Classify(features_scaled) ==
    LET emotion_id == model_predict(features_scaled) IN
    IF emotion_id \notin KnownIds
    THEN Raise(KeyError(emotion_id))
    ELSE LET emotion_label == emotion_map[emotion_id] IN
         IF ~model.has_proba
         THEN Ok(<<Some(emotion_label), None, EmptyDict>>)
         ELSE LET m == MapProbabilities(model_predict_proba(features_scaled),
                                        1, EmptyDict) IN
              IF ~m.ok
              THEN m
              ELSE IF emotion_label \notin DOMAIN m.value
                   THEN Raise(KeyError(emotion_label))
                   ELSE Ok(<<Some(emotion_label), Some(m.value[emotion_label]), m.value>>)

\* EmotionPredictor.predict(audio_path)
predict(audio_path) ==
    LET features == extract_features(audio_path) IN
    IF ~features.ok
    THEN features
    ELSE LET features_scaled == scaler_transform(features.value) IN
         IF ~features_scaled.ok
         THEN features_scaled
         ELSE Classify(features_scaled.value)

\* what predict hands to scaler.transform for audio_path: the extracted
\* features, or None when extraction raised
HandedToScaler(audio_path) ==
    LET features == extract_features(audio_path) IN
    IF features.ok THEN Some(features.value) ELSE None

\* results.append((None, None, {}))
FailureMarker == <<None, None, EmptyDict>>

----------------------------------------------------------------------------
(* The file predictor *)

\* model_path='artifacts/svm_model.pkl'
model_path == "artifacts/svm_model.pkl"

\* scaler_path='artifacts/standard_scaler.pkl'
scaler_path == "artifacts/standard_scaler.pkl"

\* __init__ has run to its end: both files were there and were loaded, and
\* expected_features is the scaler's n_features_in_
Constructed ==
    /\ model_path_exists = TRUE
    /\ scaler_path_exists = TRUE
    /\ scaler = Some([n_features_in_ |-> expected_features])
    /\ loaded = <<model_path, scaler_path>>
    /\ ctor_exc = None

\* no LiveEmotionDetector is running
LiveIdle ==
    /\ mode = "off"
    /\ lpc = "off"
    /\ iteration = 0
    /\ audio = <<>>
    /\ prediction = None
    /\ history = <<>>
    /\ displayed = <<>>
    /\ live_exc = None
    /\ slept = None
    /\ feature_audio = None

\* the state after EmotionPredictor.__init__ has loaded the artifacts
Init ==
    /\ expected_features \in ExpectedCounts
    /\ model \in Classifiers
    /\ Constructed
    /\ ppc = "idle"
    /\ audio_paths = <<>>
    /\ bidx = 0
    /\ results = <<>>
    /\ call_path = None
    /\ outcome = None
    /\ transform_arg = None
    /\ LiveIdle

\* one call predictor.predict(audio_path), as demo_single_file makes it
PredictCall(audio_path) ==
    /\ ppc = "idle"
    /\ call_path' = Some(audio_path)
    /\ outcome' = Some(predict(audio_path))
    /\ transform_arg' = HandedToScaler(audio_path)
    /\ ppc' = "done"
    /\ UNCHANGED <<feature_audio, cvars, expected_features, model, audio_paths, bidx, results, lvars>>

\* predict_batch(paths) is entered: results = []
BatchEnter(paths) ==
    /\ ppc = "idle"
    /\ audio_paths' = paths
    /\ results' = <<>>
    /\ bidx' = 1
    /\ ppc' = "batch"
    /\ UNCHANGED <<feature_audio, cvars, expected_features, model, call_path, outcome, transform_arg, lvars>>

\* BatchBody with nothing recorded for a source that fails
BatchBody_DropFailed(path, res) ==
    LET result == predict(path) IN
    IF result.ok THEN Append(res, result.value) ELSE res

\* the list results after the loop body has run for path
BatchBody(path, res) ==
    LET result == predict(path) IN
    IF result.ok
    THEN Append(res, result.value)
    ELSE Append(res, FailureMarker)

\* one iteration of "for path in audio_paths"
BatchStep ==
    /\ ppc = "batch"
    /\ bidx <= Len(audio_paths)
    /\ results' = BatchBody(audio_paths[bidx], results)
    /\ transform_arg' = HandedToScaler(audio_paths[bidx])
    /\ bidx' = bidx + 1
    /\ UNCHANGED <<feature_audio, cvars, expected_features, model, ppc, audio_paths, call_path, outcome, lvars>>

\* "return results" once the loop is exhausted
BatchReturn ==
    /\ ppc = "batch"
    /\ bidx > Len(audio_paths)
    /\ outcome' = Some(Ok(results))
    /\ ppc' = "done"
    /\ UNCHANGED <<feature_audio, cvars, expected_features, model, audio_paths, bidx, results,
                   call_path, transform_arg, lvars>>

\* the lists predict_batch is called with
BatchInputs == UNION {[1..n -> Paths] : n \in 0..MaxBatch}

Next ==
    \/ \E audio_path \in Paths : PredictCall(audio_path)
    \/ \E paths \in BatchInputs : BatchEnter(paths)
    \/ BatchStep
    \/ BatchReturn

Spec == Init /\ [][Next]_vars

----------------------------------------------------------------------------
(* Construction of the file predictor, as demo_script.main does it *)

\* the script starts: no predictor yet, the two artifact files there or not
InitConstruct ==
    /\ model_path_exists \in BOOLEAN
    /\ scaler_path_exists \in BOOLEAN
    /\ expected_features = None
    /\ model = None
    /\ scaler = None
    /\ loaded = <<>>
    /\ ctor_exc = None
    /\ ppc = "check_model"
    /\ audio_paths = <<>>
    /\ bidx = 0
    /\ results = <<>>
    /\ call_path = None
    /\ outcome = None
    /\ transform_arg = None
    /\ LiveIdle

\* raise FileNotFoundError(...) out of __init__
CtorRaise(e) ==
    /\ ctor_exc' = Some(e)
    /\ ppc' = "ctor_raised"

\* if not os.path.exists(model_path): raise FileNotFoundError("Model not
\* found at " + model_path)
CheckModelPath ==
    /\ ppc = "check_model"
    /\ IF ~model_path_exists
       THEN CtorRaise([type |-> "FileNotFoundError", msg |-> "Model not found at",
                       path |-> model_path])
       ELSE ppc' = "check_scaler" /\ ctor_exc' = ctor_exc
    /\ UNCHANGED <<feature_audio, model_path_exists, scaler_path_exists, scaler, loaded,
                   expected_features, model, audio_paths, bidx, results,
                   call_path, outcome, transform_arg, lvars>>

\* CheckScalerPath without its test: __init__ goes on to load whether the
\* scaler file is there or not
CheckScalerPath_Skipped ==
    /\ ppc = "check_scaler"
    /\ ppc' = "load_model"
    /\ UNCHANGED <<feature_audio, cvars, expected_features, model, audio_paths, bidx, results,
                   call_path, outcome, transform_arg, lvars>>

\* if not os.path.exists(scaler_path): raise FileNotFoundError("Scaler not
\* found at " + scaler_path)
CheckScalerPath ==
    /\ ppc = "check_scaler"
    /\ IF ~scaler_path_exists
       THEN CtorRaise([type |-> "FileNotFoundError", msg |-> "Scaler not found at",
                       path |-> scaler_path])
       ELSE ppc' = "load_model" /\ ctor_exc' = ctor_exc
    /\ UNCHANGED <<feature_audio, model_path_exists, scaler_path_exists, scaler, loaded,
                   expected_features, model, audio_paths, bidx, results,
                   call_path, outcome, transform_arg, lvars>>

\* self.model = joblib.load(model_path), the file holding classifier clf
LoadModel(clf) ==
    /\ ppc = "load_model"
    /\ loaded' = Append(loaded, model_path)
    /\ model' = clf
    /\ ppc' = "load_scaler"
    /\ UNCHANGED <<feature_audio, model_path_exists, scaler_path_exists, scaler, ctor_exc,
                   expected_features, audio_paths, bidx, results,
                   call_path, outcome, transform_arg, lvars>>

\* self.scaler = joblib.load(scaler_path), the file holding a scaler fitted
\* on n columns
LoadScaler(n) ==
    /\ ppc = "load_scaler"
    /\ loaded' = Append(loaded, scaler_path)
    /\ scaler' = Some([n_features_in_ |-> n])
    /\ ppc' = "record_expected"
    /\ UNCHANGED <<feature_audio, model_path_exists, scaler_path_exists, ctor_exc,
                   expected_features, model, audio_paths, bidx, results,
                   call_path, outcome, transform_arg, lvars>>

\* joblib.load raises on a file that is there and cannot be unpickled
LoadFails ==
    /\ ppc \in {"load_model", "load_scaler"}
    /\ loaded' = Append(loaded, IF ppc = "load_model" THEN model_path ELSE scaler_path)
    /\ CtorRaise([type |-> "UnpicklingError", msg |-> "joblib.load failed",
                  path |-> IF ppc = "load_model" THEN model_path ELSE scaler_path])
    /\ UNCHANGED <<feature_audio, model_path_exists, scaler_path_exists, scaler,
                   expected_features, model, audio_paths, bidx, results,
                   call_path, outcome, transform_arg, lvars>>

\* self.expected_features = self.scaler.n_features_in_, and the rest of
\* __init__: the predictor is ready
RecordExpected ==
    /\ ppc = "record_expected"
    /\ expected_features' = TheValue(scaler).n_features_in_
    /\ ppc' = "idle"
    /\ UNCHANGED <<feature_audio, cvars, model, audio_paths, bidx, results,
                   call_path, outcome, transform_arg, lvars>>

\* demo_script.main: except FileNotFoundError / except Exception: print the
\* error and sys.exit(1)
ExitOnError ==
    /\ ppc = "ctor_raised"
    /\ ppc' = "exit_1"
    /\ UNCHANGED <<feature_audio, cvars, expected_features, model, audio_paths, bidx, results,
                   call_path, outcome, transform_arg, lvars>>

NextConstruct ==
    \/ CheckModelPath
    \/ CheckScalerPath
    \/ \E clf \in Classifiers : LoadModel(clf)
    \/ \E n \in ExpectedCounts : LoadScaler(n)
    \/ LoadFails
    \/ RecordExpected
    \/ ExitOnError
    \/ Next

SpecConstruct == InitConstruct /\ [][NextConstruct]_vars

----------------------------------------------------------------------------
(* The live detector *)

\* duration=3
duration == 3

\* samples per second of the microphone (22050 in the program)
sample_rate == 1

\* self.history = deque(maxlen=3)
HistoryMaxlen == 3

\* time.sleep(3) at the start of run_continuous and run_single
StartSeconds == 3

\* time.sleep(2) at the end of an iteration of run_continuous
PauseSeconds == 2

\* the 0.01 of "np.max(np.abs(audio)) < 0.01", in thousandths
SilenceThreshold == 10

\* the amplitudes a captured sample takes, in thousandths: negative and
\* exactly at the threshold, or positive and just below it
SampleValues == {0 - SilenceThreshold, SilenceThreshold - 1}

\* int(self.duration * self.sample_rate)
NumSamples == duration * sample_rate

\* what sd.rec / sd.wait / flatten can return: exactly NumSamples samples
Recordings == [1..NumSamples -> SampleValues]

Abs(x) == IF x < 0 THEN 0 - x ELSE x

\* np.max(np.abs(audio))
MaxAbs(buf) == CHOOSE m \in {Abs(buf[i]) : i \in 1..Len(buf)} :
                  \A i \in 1..Len(buf) : Abs(buf[i]) <= m

\* TooQuiet without the absolute value: np.max(audio) < 0.01
TooQuiet_NoAbs(buf) ==
    \A i \in 1..Len(buf) : buf[i] < SilenceThreshold

\* the test "np.max(np.abs(audio)) < 0.01" of run_continuous and run_single
TooQuiet(buf) == MaxAbs(buf) < SilenceThreshold

\* what the classifier can tell of a captured buffer
AudioContent(buf) == IF buf[1] < 0 THEN 1 ELSE 2

\* a buffer handed on as it is, whatever its length
CutToDuration_NoCut(buf) == buf

\* if len(audio) > self.duration * self.sample_rate:
\*     audio = audio[:int(self.duration * self.sample_rate)]
CutToDuration(buf) ==
    IF Len(buf) > duration * sample_rate
    THEN SubSeq(buf, 1, NumSamples)
    ELSE buf

\* y, sr = librosa.load(audio_path, sr=sr, mono=True, duration=duration) on a
\* file whose decoded samples are stored: the decoder stops after duration
\* seconds and returns what the file holds when the file is shorter
load_duration(stored) ==
    [i \in 1..(IF Len(stored) < duration * sample_rate
               THEN Len(stored)
               ELSE duration * sample_rate) |-> stored[i]]

\* LiveEmotionDetector.extract_features_from_audio(audio): the buffer is cut
\* to duration * sample_rate samples when longer; the 81 scalars are
\* returned as they are
extract_features_from_audio(buf) ==
    hstack_features(AudioContent(CutToDuration(buf)))

\* LiveEmotionDetector.predict_from_audio(audio)
predict_from_audio(buf) ==
    LET features == extract_features_from_audio(buf) IN
    LET features_scaled == scaler_transform(features) IN
    IF ~features_scaled.ok
    THEN features_scaled
    ELSE Classify(features_scaled.value)

PredictorIdle ==
    /\ ppc = "off"
    /\ audio_paths = <<>>
    /\ bidx = 0
    /\ results = <<>>
    /\ call_path = None
    /\ outcome = None

\* the state after LiveEmotionDetector.__init__, at the menu of main
InitLive ==
    /\ expected_features \in ExpectedCounts
    /\ model \in Classifiers
    /\ Constructed
    /\ PredictorIdle
    /\ mode = "menu"
    /\ lpc = "menu"
    /\ iteration = 0
    /\ audio = <<>>
    /\ prediction = None
    /\ history = <<>>
    /\ displayed = <<>>
    /\ transform_arg = None
    /\ live_exc = None
    /\ slept = None
    /\ feature_audio = None

\* main: choice '1' runs run_single, '2' runs run_continuous, anything else
\* leaves; both modes begin with time.sleep(3)
ChooseMode(choice) ==
    /\ lpc = "menu"
    /\ mode' = CASE choice = "1" -> "single"
                 [] choice = "2" -> "continuous"
                 [] OTHER -> "exit"
    /\ lpc' = IF choice \in {"1", "2"} THEN "starting" ELSE "returned"
    /\ slept' = IF choice \in {"1", "2"} THEN Some(StartSeconds) ELSE slept
    /\ UNCHANGED <<feature_audio, cvars, expected_features, model, pvars, iteration, audio, prediction,
                   history, displayed, transform_arg, live_exc>>

\* the initial time.sleep(3) is over: run_single calls record_audio,
\* run_continuous sets iteration = 0 and enters the try block
Started ==
    /\ lpc = "starting"
    /\ lpc' = IF mode = "single" THEN "recording" ELSE "loop"
    /\ iteration' = 0
    /\ UNCHANGED <<feature_audio, cvars, expected_features, model, pvars, slept, mode, audio, prediction,
                   history, displayed, transform_arg, live_exc>>

\* "while True: iteration += 1" and the call of record_audio
LoopTop ==
    /\ mode = "continuous"
    /\ lpc = "loop"
    /\ iteration < MaxIterations
    /\ iteration' = iteration + 1
    /\ lpc' = "recording"
    /\ UNCHANGED <<feature_audio, cvars, expected_features, model, pvars, slept, mode, audio, prediction,
                   history, displayed, transform_arg, live_exc>>

\* record_audio returns: sd.wait() has ended and the buffer is flattened
RecordAudio(buf) ==
    /\ lpc = "recording"
    /\ audio' = buf
    /\ lpc' = "validating"
    /\ UNCHANGED <<feature_audio, cvars, expected_features, model, pvars, slept, mode, iteration, prediction,
                   history, displayed, transform_arg, live_exc>>

\* "Check if audio has sufficient volume": continue (run_continuous) or
\* return (run_single) when too quiet
Validate ==
    /\ lpc = "validating"
    /\ lpc' = IF TooQuiet(audio)
              THEN (IF mode = "continuous" THEN "loop" ELSE "returned")
              ELSE "predicting"
    /\ UNCHANGED <<feature_audio, cvars, expected_features, model, pvars, slept, mode, iteration, audio,
                   prediction, history, displayed, transform_arg, live_exc>>

\* emotion, confidence, probabilities = self.predict_from_audio(audio); an
\* exception of the call leaves run_continuous and run_single
Predict ==
    /\ lpc = "predicting"
    /\ transform_arg' = Some(extract_features_from_audio(audio))
    /\ LET r == predict_from_audio(audio) IN
         IF r.ok
         THEN /\ prediction' = Some(r.value)
              /\ lpc' = "reporting"
              /\ live_exc' = live_exc
         ELSE /\ prediction' = prediction
              /\ lpc' = "raised"
              /\ live_exc' = Some(r.exc)
    /\ UNCHANGED <<feature_audio, cvars, expected_features, model, pvars, slept, mode, iteration, audio,
                   history, displayed>>

\* the number display_result is called with
DisplayNumber == IF mode = "continuous" THEN iteration ELSE 1

\* DisplayResult with the next iteration started right after the display
DisplayResult_NoPause ==
    /\ lpc = "reporting"
    /\ displayed' = Append(displayed, <<TheValue(prediction), DisplayNumber>>)
    /\ lpc' = IF mode = "continuous" THEN "loop" ELSE "returned"
    /\ UNCHANGED <<feature_audio, cvars, expected_features, model, pvars, slept, mode, iteration,
                   audio, prediction, history, transform_arg, live_exc>>

\* self.display_result(emotion, confidence, probabilities, iteration)
DisplayResult ==
    /\ lpc = "reporting"
    /\ displayed' = Append(displayed, <<TheValue(prediction), DisplayNumber>>)
    /\ lpc' = IF mode = "continuous" THEN "pausing" ELSE "returned"
    /\ slept' = IF mode = "continuous" THEN Some(PauseSeconds) ELSE slept
    /\ UNCHANGED <<feature_audio, cvars, expected_features, model, pvars, mode, iteration, audio,
                   prediction, history, transform_arg, live_exc>>

\* time.sleep(2) is over
Pause ==
    /\ mode = "continuous"
    /\ lpc = "pausing"
    /\ lpc' = "loop"
    /\ UNCHANGED <<feature_audio, cvars, expected_features, model, pvars, slept, mode, iteration, audio,
                   prediction, history, displayed, transform_arg, live_exc>>

\* the positions inside "try:" of run_continuous
InTry == {"loop", "recording", "validating", "predicting", "reporting", "pausing"}

\* KeyboardInterrupt with a handler inside the loop that swallows the
\* interrupt and goes on with the next iteration
KeyboardInterrupt_Swallowed ==
    /\ lpc \in InTry \cup {"starting"}
    /\ live_exc' = Some([type |-> "KeyboardInterrupt", at |-> lpc])
    /\ lpc' = IF mode = "continuous" /\ lpc \in InTry THEN "loop" ELSE "raised"
    /\ UNCHANGED <<feature_audio, cvars, expected_features, model, pvars, slept, mode, iteration, audio,
                   prediction, history, displayed, transform_arg>>

\* The user presses Ctrl+C: Python raises KeyboardInterrupt in the main
\* thread wherever it is, blocking calls (sd.wait, time.sleep) included.
\* run_continuous catches it around the whole loop and says goodbye;
\* nothing else catches it.
KeyboardInterrupt ==
    /\ lpc \in InTry \cup {"starting"}
    /\ live_exc' = Some([type |-> "KeyboardInterrupt", at |-> lpc])
    /\ lpc' = IF mode = "continuous" /\ lpc \in InTry THEN "stopped" ELSE "raised"
    /\ UNCHANGED <<feature_audio, cvars, expected_features, model, pvars, slept, mode, iteration, audio,
                   prediction, history, displayed, transform_arg>>

NextLive ==
    \/ \E choice \in {"1", "2", "3"} : ChooseMode(choice)
    \/ Started
    \/ LoopTop
    \/ \E buf \in Recordings : RecordAudio(buf)
    \/ Validate
    \/ Predict
    \/ DisplayResult
    \/ Pause
    \/ KeyboardInterrupt

SpecLive == InitLive /\ [][NextLive]_vars

-----------------------------------------------------------------------------
(* The buffer the features are computed over, on the two paths *)

\* how many samples more than duration * sample_rate an input buffer holds
\* at most
MaxExtra == 2

\* the input buffers: shorter than, as long as and longer than
\* duration * sample_rate samples
Buffers == UNION {[1..n -> SampleValues] : n \in 1..(NumSamples + MaxExtra)}

\* a constructed predictor and detector, and an input buffer in audio: the
\* argument of extract_features_from_audio, or the decoded samples the file
\* of extract_features holds
InitBuffer ==
    /\ expected_features \in ExpectedCounts
    /\ model \in Classifiers
    /\ Constructed
    /\ ppc = "idle"
    /\ audio_paths = <<>>
    /\ bidx = 0
    /\ results = <<>>
    /\ call_path = None
    /\ outcome = None
    /\ transform_arg = None
    /\ mode = "off"
    /\ lpc = "off"
    /\ iteration = 0
    /\ audio \in Buffers
    /\ prediction = None
    /\ history = <<>>
    /\ displayed = <<>>
    /\ live_exc = None
    /\ slept = None
    /\ feature_audio = None

\* LiveEmotionDetector.extract_features_from_audio(audio), up to the call
\* librosa.feature.mfcc(y=audio, ...)
ExtractFromAudio ==
    /\ feature_audio = None
    /\ feature_audio' = Some([path |-> "live", samples |-> CutToDuration(audio)])
    /\ UNCHANGED <<cvars, expected_features, model, pvars, lvars, transform_arg>>

\* EmotionPredictor.extract_features(audio_path), up to the call
\* librosa.feature.mfcc(y=y, ...)
ExtractFromFile ==
    /\ feature_audio = None
    /\ feature_audio' = Some([path |-> "file", samples |-> load_duration(audio)])
    /\ UNCHANGED <<cvars, expected_features, model, pvars, lvars, transform_arg>>

NextBuffer ==
    \/ ExtractFromAudio
    \/ ExtractFromFile

SpecBuffer == InitBuffer /\ [][NextBuffer]_vars

----------------------------------------------------------------------------
(* Claims about the file predictor, checked under Spec *)

\* the sources the decoder accepts
Decodable == {p \in Paths : path_exists(p) /\ librosa_load(p).ok}

\* the vector np.hstack produced for a decodable source, before reconciliation
Produced(p) == hstack_features(librosa_load(p).value)

\* the finished call was predict(p)
PredictDone(p) == ppc = "done" /\ call_path = Some(p)

\* C1: after predict(p) on a decodable source the 81 produced scalars were
\* returned by extract_features followed by exactly one 0 when
\* expected_features is 82, by exactly two 0 when it is 83, unchanged when it
\* is 81; for every other expected_features no vector was returned and the
\* call raised the dimension-mismatch error carrying both lengths.
C1_DimensionReconciliation ==
    \A p \in Decodable :
        PredictDone(p) =>
            /\ Len(Produced(p)) = 81
            /\ expected_features = 81 => transform_arg = Some(Produced(p))
            /\ expected_features = 82 => transform_arg = Some(Produced(p) \o <<0>>)
            /\ expected_features = 83 => transform_arg = Some(Produced(p) \o <<0, 0>>)
            /\ expected_features \notin {81, 82, 83} =>
                  /\ transform_arg = None
                  /\ ~TheValue(outcome).ok
                  /\ TheValue(outcome).exc.cause.msg = "Feature dimension mismatch"
                  /\ TheValue(outcome).exc.cause.expected = expected_features
                  /\ TheValue(outcome).exc.cause.got = 81

\* C1 witness: predict ran on a.wav with a scaler of 82 columns and the row
\* it got has 82 entries, the last one 0
C1_Witness ==
    /\ PredictDone("a.wav")
    /\ expected_features = 82
    /\ transform_arg # None
    /\ Len(TheValue(transform_arg)) = 82
    /\ TheValue(transform_arg)[82] = 0
    /\ TheValue(transform_arg)[81] # 0

\* predict_batch has returned
BatchDone == ppc = "done" /\ call_path = None

\* the failures of a single source: missing file, extraction error,
\* dimension mismatch, a class identifier without a label
MustFail(p) ==
    \/ ~path_exists(p)
    \/ ~librosa_load(p).ok
    \/ expected_features \notin {81, 82, 83}
    \/ model.predict[librosa_load(p).value] \notin KnownIds
    \/ model.has_proba /\ \E i \in 1..Len(model.classes_) : model.classes_[i] \notin KnownIds

\* the entry predict_batch owes for a source
BatchEntry(p) == IF MustFail(p) THEN FailureMarker ELSE predict(p).value

\* C2: predict_batch returns one entry per input, in input order: the
\* failure marker for a source that is missing, undecodable, of the wrong
\* dimension or classified with an unknown identifier, and predict's own
\* result (which is not the marker) everywhere else; while the loop runs, results holds those entries for the sources
\* already passed, so a failure never stops the loop.
C2_BatchIsolation ==
    /\ ppc = "batch" =>
          /\ Len(results) = bidx - 1
          /\ \A i \in 1..Len(results) : results[i] = BatchEntry(audio_paths[i])
    /\ BatchDone =>
          /\ TheValue(outcome).ok
          /\ Len(TheValue(outcome).value) = Len(audio_paths)
          /\ \A i \in 1..Len(audio_paths) :
                /\ TheValue(outcome).value[i] = BatchEntry(audio_paths[i])
                /\ ~MustFail(audio_paths[i]) =>
                      /\ predict(audio_paths[i]).ok
                      /\ TheValue(outcome).value[i] # FailureMarker

\* C2 witness: a batch of three returned, the missing file in the middle is
\* the failure marker and the sources around it have two different results
C2_Witness ==
    /\ BatchDone
    /\ audio_paths = <<"a.wav", "missing.wav", "b.wav">>
    /\ TheValue(outcome).value[2] = FailureMarker
    /\ TheValue(outcome).value[1] # FailureMarker
    /\ TheValue(outcome).value[3] # FailureMarker
    /\ TheValue(outcome).value[1] # TheValue(outcome).value[3]

\* predict(p) returned a result
PredictReturned(p) == PredictDone(p) /\ TheValue(outcome).ok

\* the result of the finished predict call
Emotion == TheValue(TheValue(outcome).value[1])
Confidence == TheValue(outcome).value[2]
Probabilities == TheValue(outcome).value[3]

\* the labels of the classifier's fitted classes
ClassLabels == {emotion_map[model.classes_[i]] : i \in 1..Len(model.classes_)}

\* C9: a result of predict from a classifier with predict_proba has exactly
\* the labels of classes_ as keys, each with the probability at the same
\* index of the row predict_proba returned, and the confidence is the entry
\* of the predicted label; without predict_proba the label is a label, the
\* confidence is None and the distribution is the empty dict.
C9_ResultShape ==
    \A p \in Decodable :
        PredictReturned(p) =>
            LET row == model.predict_proba[librosa_load(p).value] IN
            /\ model.has_proba =>
                  /\ DOMAIN Probabilities = ClassLabels
                  /\ \A i \in 1..Len(model.classes_) :
                        Probabilities[emotion_map[model.classes_[i]]] = row[i]
                  /\ Confidence = Some(Probabilities[Emotion])
            /\ ~model.has_proba =>
                  /\ Emotion \in {emotion_map[k] : k \in KnownIds}
                  /\ Confidence = None
                  /\ Probabilities = EmptyDict

\* C9 witness: a result from a classifier whose classes_ are not in sorted
\* order and whose probability row tells the two classes apart
C9_Witness ==
    /\ PredictReturned("a.wav")
    /\ model.has_proba
    /\ model.classes_ = <<2, 1>>
    /\ Probabilities["Calm"] # Probabilities["Neutral"]

\* the position of class identifier id in classes_
ClassIndex(id) == CHOOSE i \in 1..Len(model.classes_) : model.classes_[i] = id

\* the class predict returns for content c has a maximal predict_proba entry
PredictAgreesWithProba(c) ==
    LET row == model.predict_proba[c] IN
    \A j \in 1..Len(row) : row[ClassIndex(model.predict[c])] >= row[j]

\* C10 as stated: the predicted label of a result with a distribution has
\* the largest probability of the distribution.
C10_LabelIsArgMax ==
    \A p \in Decodable :
        (PredictReturned(p) /\ Probabilities # EmptyDict) =>
            \A k \in DOMAIN Probabilities : Probabilities[Emotion] >= Probabilities[k]

\* C10 amended: the predicted label of a result with a distribution is the
\* label of the class the predict call returned and is a key of the
\* distribution; it has the largest probability of the distribution
\* whenever the class predict returned has a largest entry in the row
\* predict_proba returned.
C10_LabelFromPredict ==
    \A p \in Decodable :
        (PredictReturned(p) /\ Probabilities # EmptyDict) =>
            LET c == librosa_load(p).value IN
            /\ Emotion = emotion_map[model.predict[c]]
            /\ Emotion \in DOMAIN Probabilities
            /\ PredictAgreesWithProba(c) =>
                  \A k \in DOMAIN Probabilities :
                      Probabilities[Emotion] >= Probabilities[k]

\* C10 witness: a result whose label is not the most probable one
C10_Witness ==
    /\ PredictReturned("a.wav")
    /\ Probabilities # EmptyDict
    /\ \E k \in DOMAIN Probabilities : Probabilities[k] > Probabilities[Emotion]

----------------------------------------------------------------------------
(* Claims about the live detector, checked under SpecLive *)

\* the step is the user's interrupt
Interrupted == live_exc' # live_exc /\ TheValue(live_exc').type = "KeyboardInterrupt"

\* C3: in run_single and run_continuous a buffer whose largest absolute
\* value is below 0.01 leaves the validation without predict_from_audio
\* being called, without a result and without a display, and a buffer whose
\* largest absolute value is at least 0.01 leaves it for predict_from_audio;
\* predict_from_audio and display_result only ever run on such a buffer.
C3_SilenceRejection ==
    /\ [](lpc \in {"predicting", "reporting"} => MaxAbs(audio) >= SilenceThreshold)
    /\ [][(lpc = "validating" /\ lpc' # lpc /\ ~Interrupted) =>
             IF MaxAbs(audio) < SilenceThreshold
             THEN /\ lpc' = (IF mode = "continuous" THEN "loop" ELSE "returned")
                  /\ UNCHANGED <<prediction, displayed, transform_arg, history>>
             ELSE /\ lpc' = "predicting"
                  /\ audio' = audio]_vars
    /\ [][(prediction' # prediction \/ displayed' # displayed
                \/ transform_arg' # transform_arg) =>
             /\ lpc \in {"predicting", "reporting"}
             /\ audio' = audio]_vars

\* C3 witness: run_continuous displayed the first, loud recording and sent
\* the second, quiet one back to the top of the loop
C3_Witness ==
    /\ mode = "continuous"
    /\ lpc = "loop"
    /\ iteration = 2
    /\ MaxAbs(audio) < SilenceThreshold
    /\ Len(displayed) = 1
    /\ displayed[1][2] = 1

\* the results display_result was called with, oldest first
Reported == [i \in 1..Len(displayed) |-> displayed[i][1]]

\* the last n entries of s, or all of s when it has fewer
LastN(s, n) == IF Len(s) <= n THEN s ELSE SubSeq(s, Len(s) - n + 1, Len(s))

\* C4: after every reported prediction the history holds the most recent
\* reported results, at most 3, the newest last.
C4_ReportedIsInHistory == history = LastN(Reported, HistoryMaxlen)

C6_CancelOnlyAtBoundary ==
    [][lpc' = "stopped" => lpc = "loop"]_vars

\* C6 amended: the interrupt can arrive at every position of the loop,
\* between iterations and during a recording, validation, prediction,
\* report or pause; wherever it arrives, the step in progress is abandoned
\* as it is, the loop ends and never records, predicts or reports again.
C6_InterruptEndsLoop ==
    /\ []((mode = "continuous" /\ lpc \in InTry) => ENABLED KeyboardInterrupt)
    /\ [][(mode = "continuous" /\ lpc \in InTry /\ Interrupted) =>
             /\ lpc' = "stopped"
             /\ TheValue(live_exc').at = lpc
             /\ UNCHANGED <<iteration, audio, prediction, displayed, history>>]_vars
    /\ [][lpc = "stopped" => lpc' = "stopped"]_vars

\* C6 witness: run_continuous was stopped during its second recording, with
\* the first recording still in audio
C6_Witness ==
    /\ mode = "continuous"
    /\ lpc = "stopped"
    /\ TheValue(live_exc).at = "recording"
    /\ iteration = 2
    /\ Len(audio) = NumSamples

\* C7: run_continuous is never ended by a failure of feature extraction,
\* normalization, prediction or label mapping; only the interrupt ends it.
C7_LoopSurvivesFailure ==
    (mode = "continuous" /\ lpc = "raised") =>
        TheValue(live_exc).type = "KeyboardInterrupt"

\* C8: for expected_features 81, 82 or 83 the row handed to
\* scaler.transform has expected_features entries, in predict and in
\* predict_from_audio.
C8_ScalerRowLength ==
    (expected_features \in {81, 82, 83} /\ transform_arg # None) =>
        Len(TheValue(transform_arg)) = expected_features

----------------------------------------------------------------------------
(* Claims about the construction, checked under SpecConstruct *)

\* a predictor object exists and can be called
PredictorUsable == ppc \in {"idle", "batch", "done"}

\* the constructor has raised
CtorFailed == ppc \in {"ctor_raised", "exit_1"}

\* the not-found error for path
NotFound(path) ==
    /\ ctor_exc # None
    /\ TheValue(ctor_exc).type = "FileNotFoundError"
    /\ TheValue(ctor_exc).path = path

\* C11: with the model file or the scaler file missing, __init__ never gets
\* past its two checks, joblib.load is never called, no predictor becomes
\* usable, and when it has raised the error is the not-found error naming
\* the missing path, the model path when both are missing; a usable
\* predictor means both files exist, each was loaded exactly once, model
\* first, and expected_features is the loaded scaler's n_features_in_.
C11_ConstructionNeedsArtifacts ==
    /\ (~model_path_exists \/ ~scaler_path_exists) =>
          /\ ppc \in {"check_model", "check_scaler", "ctor_raised", "exit_1"}
          /\ ppc = "check_scaler" => model_path_exists
          /\ loaded = <<>>
          /\ scaler = None
          /\ CtorFailed =>
                NotFound(IF ~model_path_exists THEN model_path ELSE scaler_path)
    /\ PredictorUsable =>
          /\ model_path_exists /\ scaler_path_exists
          /\ loaded = <<model_path, scaler_path>>
          /\ scaler # None
          /\ expected_features = TheValue(scaler).n_features_in_
          /\ ctor_exc = None
    /\ \A i \in 1..Len(loaded) : loaded[i] = <<model_path, scaler_path>>[i]

\* C11 witness: both files are missing, the constructor raised the error
\* naming the model path and the script has exited
C11_Witness ==
    /\ ~model_path_exists
    /\ ~scaler_path_exists
    /\ ppc = "exit_1"
    /\ NotFound(model_path)
    /\ loaded = <<>>

----------------------------------------------------------------------------
(* The order of the steps of the live detector, checked under SpecLive *)

\* the step completes the operation in progress: it is neither the user's
\* interrupt nor an exception leaving the running mode
Completes == lpc' # lpc /\ ~Interrupted /\ lpc' # "raised"

\* nothing was predicted, reported or slept in the step
NoPredictReportPause ==
    UNCHANGED <<prediction, displayed, transform_arg, slept>>

\* where a completed step of run_continuous leads
ContinuousOrder ==
    CASE lpc = "starting" -> lpc' = "loop"
      [] lpc = "loop" -> lpc' = "recording" /\ iteration' = iteration + 1
      [] lpc = "recording" -> lpc' = "validating" /\ NoPredictReportPause
      [] lpc = "validating" ->
           IF MaxAbs(audio) < SilenceThreshold
           THEN lpc' = "loop" /\ NoPredictReportPause
           ELSE lpc' = "predicting"
      [] lpc = "predicting" -> lpc' = "reporting" /\ prediction' # None
      [] lpc = "reporting" ->
           /\ lpc' = "pausing"
           /\ slept' = Some(PauseSeconds)
           /\ displayed' = Append(displayed, <<TheValue(prediction), iteration>>)
      [] lpc = "pausing" -> lpc' = "loop" /\ NoPredictReportPause
      [] OTHER -> FALSE

\* where a completed step of run_single leads
SingleOrder ==
    CASE lpc = "starting" -> lpc' = "recording"
      [] lpc = "recording" -> lpc' = "validating" /\ NoPredictReportPause
      [] lpc = "validating" ->
           IF MaxAbs(audio) < SilenceThreshold
           THEN lpc' = "returned" /\ NoPredictReportPause
           ELSE lpc' = "predicting"
      [] lpc = "predicting" -> lpc' = "reporting" /\ prediction' # None
      [] lpc = "reporting" ->
           /\ lpc' = "returned"
           /\ slept' = slept
           /\ displayed' = <<(<<TheValue(prediction), 1>>)>>
      [] OTHER -> FALSE

\* C12: in run_continuous every step that completes goes from the top of
\* the loop to Recording, from Recording to Validating, from Validating to
\* Predicting when the buffer is accepted and back to the top of the loop,
\* with nothing predicted, reported or slept, when it is rejected, from
\* Predicting to Reporting, from Reporting to Pausing with a sleep of 2
\* seconds, and from Pausing to the top of the loop.  In run_single the
\* steps are Recording, Validating, then the return when rejected or
\* Predicting, Reporting and the return: Recording is only entered from the
\* start, the top of the loop and Pausing are never entered, at most one
\* result is displayed, and nothing follows the return.
C12_StepOrder ==
    /\ [][(mode = "continuous" /\ Completes) => ContinuousOrder]_vars
    /\ [][(mode = "single" /\ Completes) => SingleOrder]_vars
    /\ [](mode = "single" =>
             /\ lpc \notin {"loop", "pausing"}
             /\ Len(displayed) <= 1
             /\ slept = Some(StartSeconds))
    /\ [][lpc' = "starting" => (lpc = "menu" \/ lpc = "starting")]_vars
    /\ [][(lpc \in {"returned", "stopped", "raised"}) => (lpc' = lpc)]_vars

\* C12 witness: run_continuous has taken its first recording through the
\* prediction, the report and the 2 second pause and is recording again
C12_Witness ==
    /\ mode = "continuous"
    /\ lpc = "recording"
    /\ iteration = 2
    /\ Len(displayed) = 1
    /\ slept = Some(PauseSeconds)

-----------------------------------------------------------------------------
(* Claims about the buffer of the features, checked under SpecBuffer *)

\* the buffer the features were computed over
Samples == TheValue(feature_audio).samples

====
